---- MODULE Spec2Model ----
(***************************************************************************)
(* Identifier resolution of the WPM typing bot (wpm_bot.py) together with  *)
(* the unknown-function recorder and the suggestion tool                   *)
(* (review_unknowns.py).                                                   *)
(*                                                                         *)
(* Python strings are sequences of one-character strings; a Python dict is *)
(* a sequence of entries in insertion order; a float 1.0 - d/m is the      *)
(* rational <<m - d, m>> (for lengths up to 40 the float comparisons used  *)
(* by the code order exactly as the rationals do).                         *)
(***************************************************************************)
EXTENDS Integers, Sequences, FiniteSets, TLC

\* Python None where a string is expected: no string has this character
None == <<"None">>
\* Python None where a language tag is expected
NoLanguage == "None"

(***************************************************************************)
(* Strings                                                                 *)
(***************************************************************************)
\* str.lower() on one character: only the upper-case letters change.
LowerChar(c) ==
    CASE c = "A" -> "a"
      [] c = "B" -> "b"
      [] c = "D" -> "d"
      [] c = "E" -> "e"
      [] c = "F" -> "f"
      [] c = "Z" -> "z"
      [] OTHER -> c

\* str.lower()
lower(s) == [i \in 1..Len(s) |-> LowerChar(s[i])]

\* str.startswith(prefix)
startswith(s, prefix) ==
    /\ Len(prefix) <= Len(s)
    /\ SubSeq(s, 1, Len(prefix)) = prefix

\* Python `sub in s` for strings (the empty string is in every string)
contains(sub, s) ==
    \E i \in 0..(Len(s) - Len(sub)) : SubSeq(s, i + 1, i + Len(sub)) = sub

\* s[n:]
DropFirst(s, n) == SubSeq(s, n + 1, Len(s))

\* the characters str.strip() takes for whitespace
Whitespace == {" ", "\t", "\n", "\r"}

\* str.strip(): leading and trailing whitespace removed
RECURSIVE lstrip(_)
lstrip(s) == IF s # <<>> /\ Head(s) \in Whitespace THEN lstrip(Tail(s)) ELSE s

RECURSIVE rstrip(_)
rstrip(s) ==
    IF s # <<>> /\ s[Len(s)] \in Whitespace
    THEN rstrip(SubSeq(s, 1, Len(s) - 1))
    ELSE s

strip(s) == rstrip(lstrip(s))

(***************************************************************************)
(* Scores: the float 1.0 - d/m as the pair <<m - d, m>>                    *)
(***************************************************************************)
Gt(x, y) == x[1] * y[2] > y[1] * x[2]
Eq(x, y) == x[1] * y[2] = y[1] * x[2]
Ge(x, y) == Gt(x, y) \/ Eq(x, y)

\* Python max(x, y): the first argument unless the second is greater
max(x, y) == IF Gt(y, x) THEN y ELSE x

Zero == <<0, 1>>
One == <<1, 1>>
THRESHOLD == <<6, 10>>
BOOST == <<85, 100>>
TOOL_BOOST == <<8, 10>>
TOOL_THRESHOLD == <<5, 10>>

(***************************************************************************)
(* Similarity scorer                                                       *)
(***************************************************************************)
min3(a, b, c) == IF a <= b /\ a <= c THEN a ELSE IF b <= c THEN b ELSE c

\* an inner loop in which a substitution costs as much as a deletion
\* followed by an insertion
RECURSIVE current_row_without_substitution(_, _, _, _, _)
current_row_without_substitution(c1, s2, previous_row, row, j) ==
    IF Len(row) > Len(s2) THEN row
    ELSE LET insertions == previous_row[j + 1] + 1
             deletions == row[j] + 1
             substitutions == previous_row[j] + (IF c1 # s2[j] THEN 2 ELSE 0)
         IN current_row_without_substitution(c1, s2, previous_row,
                        Append(row, min3(insertions, deletions, substitutions)),
                        j + 1)

\* the inner loop over s2: row is current_row before the j-th character
\* of s2 and holds j cells; the loop ends behind the last character
RECURSIVE current_row(_, _, _, _, _)
current_row(c1, s2, previous_row, row, j) ==
    IF Len(row) > Len(s2) THEN row
    ELSE LET insertions == previous_row[j + 1] + 1
             deletions == row[j] + 1
             substitutions == previous_row[j] + (IF c1 # s2[j] THEN 1 ELSE 0)
         IN current_row(c1, s2, previous_row,
                        Append(row, min3(insertions, deletions, substitutions)),
                        j + 1)

\* the outer loop over s1: previous_row after the first i - 1 characters
RECURSIVE last_row(_, _, _, _)
last_row(s1, s2, previous_row, i) ==
    IF i > Len(s1) THEN previous_row
    ELSE last_row(s1, s2, current_row(s1[i], s2, previous_row, <<i>>, 1), i + 1)

RECURSIVE levenshtein_distance(_, _)
levenshtein_distance(s1, s2) ==
    IF Len(s1) < Len(s2) THEN levenshtein_distance(s2, s1)
    ELSE IF Len(s2) = 0 THEN Len(s1)
    ELSE LET row == last_row(s1, s2, [k \in 1..(Len(s2) + 1) |-> k - 1], 1)
         IN row[Len(row)]

\* a similarity that divides by the length of its first argument
similarity_by_first_length(s1, s2) ==
    IF s1 = <<>> \/ s2 = <<>> THEN Zero
    ELSE LET distance == levenshtein_distance(s1, s2)
         IN <<Len(s1) - distance, Len(s1)>>

\* review_unknowns.py holds the same two functions, word for word
calculate_similarity(s1, s2) ==
    IF s1 = <<>> \/ s2 = <<>> THEN Zero
    ELSE LET distance == levenshtein_distance(s1, s2)
             max_len == IF Len(s1) >= Len(s2) THEN Len(s1) ELSE Len(s2)
         IN <<max_len - distance, max_len>>

(***************************************************************************)
(* Python dicts: a sequence of [key, value] entries in insertion order     *)
(***************************************************************************)
HasKey(d, k) == \E i \in 1..Len(d) : d[i].key = k
IndexOf(d, k) == CHOOSE i \in 1..Len(d) : d[i].key = k
Get(d, k) == d[IndexOf(d, k)].value
\* d[k] = v: a new key goes last, an existing key keeps its place
Put(d, k, v) ==
    IF HasKey(d, k) THEN [d EXCEPT ![IndexOf(d, k)].value = v]
    ELSE Append(d, [key |-> k, value |-> v])
\* list(d.keys())
Keys(d) == [i \in 1..Len(d) |-> d[i].key]
\* list(d.keys())[0]
FirstKey(d) == d[1].key

(***************************************************************************)
(* Catalog construction (load_code_blocks, the loop over the snapshot)     *)
(***************************************************************************)
\* ''.join(block['blocks'])
RECURSIVE join(_)
join(lines) == IF lines = <<>> THEN <<>> ELSE Head(lines) \o join(Tail(lines))

\* a loop that keys the lookup by the title as it is written
RECURSIVE build_lookup_keeping_case(_, _, _)
build_lookup_keeping_case(blocks, i, lookup) ==
    IF i > Len(blocks) THEN lookup
    ELSE LET block == blocks[i]
             title == block.title
             language == IF block.language = NoLanguage THEN "unknown"
                         ELSE block.language
             code == join(block.blocks)
             base == IF HasKey(lookup, title) THEN lookup
                     ELSE Put(lookup, title, <<>>)
         IN build_lookup_keeping_case(blocks, i + 1,
                Put(base, title, Put(Get(base, title), language, code)))

RECURSIVE build_lookup(_, _, _)
build_lookup(blocks, i, lookup) ==
    IF i > Len(blocks) THEN lookup
    ELSE LET block == blocks[i]
             title == lower(block.title)
             language == IF block.language = NoLanguage THEN "unknown"
                         ELSE block.language
             code == join(block.blocks)
             base == IF HasKey(lookup, title) THEN lookup
                     ELSE Put(lookup, title, <<>>)
         IN build_lookup(blocks, i + 1,
                Put(base, title, Put(Get(base, title), language, code)))

(***************************************************************************)
(* Resolver: fuzzy_match_function_name                                     *)
(***************************************************************************)
PREFIXES ==
    << <<"d", "e", "f">>,
       <<"v", "a", "r">>,
       <<"f", "u", "n", "c", "t", "i", "o", "n">>,
       <<"f", "u", "n", "c">>,
       <<"c", "o", "n", "s", "t">>,
       <<"l", "e", "t">> >>

\* a prefix loop that also drops the blanks behind the prefix
RECURSIVE strip_prefix_and_blanks(_, _)
strip_prefix_and_blanks(clean_ocr, i) ==
    IF i > Len(PREFIXES) THEN clean_ocr
    ELSE IF startswith(clean_ocr, PREFIXES[i])
         THEN lstrip(DropFirst(clean_ocr, Len(PREFIXES[i])))
         ELSE strip_prefix_and_blanks(clean_ocr, i + 1)

\* the prefix loop: the first prefix the name starts with is cut off
RECURSIVE strip_prefix(_, _)
strip_prefix(clean_ocr, i) ==
    IF i > Len(PREFIXES) THEN clean_ocr
    ELSE IF startswith(clean_ocr, PREFIXES[i])
         THEN DropFirst(clean_ocr, Len(PREFIXES[i]))
         ELSE strip_prefix(clean_ocr, i + 1)

\* a loop body without the substring boost
similarity_without_boost(ocr_lower, clean_ocr, func_name) ==
    max(calculate_similarity(ocr_lower, func_name),
        calculate_similarity(clean_ocr, func_name))

\* the similarity computed for one func_name in the loop body
boosted_similarity(ocr_lower, clean_ocr, func_name) ==
    LET sim1 == calculate_similarity(ocr_lower, func_name)
        sim2 == calculate_similarity(clean_ocr, func_name)
        similarity == max(sim1, sim2)
    IN IF contains(func_name, clean_ocr) \/ contains(clean_ocr, func_name)
       THEN max(similarity, BOOST)
       ELSE similarity

\* a loop condition that lets a later func_name with the same score in
improves_or_ties(similarity, best_score) ==
    Ge(similarity, best_score) /\ Gt(similarity, THRESHOLD)

\* a loop condition that lets a score of exactly the threshold pass
improves_from_threshold(similarity, best_score) ==
    Gt(similarity, best_score) /\ Ge(similarity, THRESHOLD)

\* the condition under which the loop takes func_name as the best match
improves(similarity, best_score) ==
    Gt(similarity, best_score) /\ Gt(similarity, THRESHOLD)

RECURSIVE best_match_loop(_, _, _, _, _, _)
best_match_loop(keys, i, ocr_lower, clean_ocr, best_match, best_score) ==
    IF i > Len(keys) THEN best_match
    ELSE LET func_name == keys[i]
             similarity == boosted_similarity(ocr_lower, clean_ocr, func_name)
         IN IF improves(similarity, best_score)
            THEN best_match_loop(keys, i + 1, ocr_lower, clean_ocr,
                                 func_name, similarity)
            ELSE best_match_loop(keys, i + 1, ocr_lower, clean_ocr,
                                 best_match, best_score)

\* a scoring that leaves a candidate alone when nothing is left of it
\* behind its prefix
fuzzy_scoring_of_a_remainder(blocks, ocr_lower) ==
    LET clean_ocr == strip_prefix(ocr_lower, 1)
        best_match == best_match_loop(Keys(blocks), 1, ocr_lower, clean_ocr,
                                      None, <<0, 1>>)
    IN IF clean_ocr # <<>> /\ best_match # None /\ best_match # <<>>
       THEN best_match
       ELSE None

\* the scoring part of fuzzy_match_function_name (after the corrections map)
fuzzy_scoring(blocks, ocr_lower) ==
    LET clean_ocr == strip_prefix(ocr_lower, 1)
        best_match == best_match_loop(Keys(blocks), 1, ocr_lower, clean_ocr,
                                      None, <<0, 1>>)
    IN IF best_match # None /\ best_match # <<>> THEN best_match ELSE None

\* fuzzy_match_function_name without the look into the corrections map
fuzzy_match_without_corrections(blocks, corrections, ocr_name) ==
    IF ocr_name = None \/ ocr_name = <<>> THEN None
    ELSE fuzzy_scoring(blocks, lower(ocr_name))

\* corrections.set is FALSE when the attribute was never set (hasattr)
fuzzy_match_function_name(blocks, corrections, ocr_name) ==
    IF ocr_name = None \/ ocr_name = <<>> THEN None
    ELSE LET ocr_lower == lower(ocr_name)
         IN IF corrections.set /\ HasKey(corrections.map, ocr_lower)
            THEN Get(corrections.map, ocr_lower)
            ELSE fuzzy_scoring(blocks, ocr_lower)

(***************************************************************************)
(* Resolver: get_code_from_database                                        *)
(* The value is [code, via, key, asked]: the returned value, the return    *)
(* statement that produced it, the catalog key whose variants were read,   *)
(* and whether detect_language_from_screen was called.                     *)
(***************************************************************************)
Truthy(x) == x # None /\ x # <<>>
TruthyLanguage(x) == x # NoLanguage /\ x # ""

Answer(code, via, key, asked) ==
    [code |-> code, via |-> via, key |-> key, asked |-> asked]

\* the exact-match branch
exact_variant(variants, key, selected, language_hint, detected_lang) ==
    IF TruthyLanguage(selected) /\ HasKey(variants, selected)
    THEN Answer(Get(variants, selected), "exact", key, FALSE)
    ELSE IF TruthyLanguage(language_hint) /\ HasKey(variants, language_hint)
    THEN Answer(Get(variants, language_hint), "exact", key, FALSE)
    ELSE IF HasKey(variants, detected_lang)
    THEN Answer(Get(variants, detected_lang), "exact", key, TRUE)
    ELSE Answer(Get(variants, FirstKey(variants)), "exact", key, TRUE)

\* the branch taken with the name fuzzy_match_function_name returned
corrected_variant(variants, key, selected) ==
    IF TruthyLanguage(selected) /\ HasKey(variants, selected)
    THEN Answer(Get(variants, selected), "corrected", key, FALSE)
    ELSE Answer(Get(variants, FirstKey(variants)), "corrected", key, FALSE)

\* the condition of the last-resort loop
substring_related(func_name_lower, key) ==
    contains(func_name_lower, key) \/ contains(key, func_name_lower)

\* a last-resort loop that goes on to the last key in a substring relation
RECURSIVE substring_match_last(_, _, _)
substring_match_last(keys, i, func_name_lower) ==
    IF i > Len(keys) THEN None
    ELSE LET later == substring_match_last(keys, i + 1, func_name_lower)
         IN IF later # None THEN later
            ELSE IF substring_related(func_name_lower, keys[i]) THEN keys[i]
            ELSE None

\* the last-resort loop: the first key in a substring relation, or None
RECURSIVE substring_match(_, _, _)
substring_match(keys, i, func_name_lower) ==
    IF i > Len(keys) THEN None
    ELSE IF substring_related(func_name_lower, keys[i]) THEN keys[i]
    ELSE substring_match(keys, i + 1, func_name_lower)

substring_variant(variants, key) ==
    Answer(Get(variants, FirstKey(variants)), "substring", key, FALSE)

\* the last resort taking the variants of the first catalog entry
after_exact_with_first_entry(blocks, corrections, selected, name, func_name_lower) ==
    LET corrected_name == fuzzy_match_function_name(blocks, corrections, name)
        key == substring_match(Keys(blocks), 1, func_name_lower)
    IN IF Truthy(corrected_name) /\ HasKey(blocks, corrected_name)
       THEN corrected_variant(Get(blocks, corrected_name), corrected_name,
                              selected)
       ELSE IF key # None THEN substring_variant(blocks[1].value, key)
       ELSE Answer(None, "unknown", None, FALSE)

\* what follows the exact-match test
after_exact(blocks, corrections, selected, name, func_name_lower) ==
    LET corrected_name == fuzzy_match_function_name(blocks, corrections, name)
        key == substring_match(Keys(blocks), 1, func_name_lower)
    IN IF Truthy(corrected_name) /\ HasKey(blocks, corrected_name)
       THEN corrected_variant(Get(blocks, corrected_name), corrected_name,
                              selected)
       ELSE IF key # None THEN substring_variant(Get(blocks, key), key)
       ELSE Answer(None, "unknown", None, FALSE)

\* get_code_from_database without the exact-match test
get_code_without_exact_match(blocks, corrections, selected, name, hint, screen) ==
    IF ~Truthy(name) THEN Answer(None, "empty", None, FALSE)
    ELSE after_exact(blocks, corrections, selected, name, lower(name))

get_code_from_database(blocks, corrections, selected, name, hint, screen) ==
    IF ~Truthy(name) THEN Answer(None, "empty", None, FALSE)
    ELSE LET func_name_lower == lower(name)
         IN IF HasKey(blocks, func_name_lower)
            THEN exact_variant(Get(blocks, func_name_lower), func_name_lower,
                               selected, hint, screen)
            ELSE after_exact(blocks, corrections, selected, name,
                             func_name_lower)

(***************************************************************************)
(* load_code_blocks: the catalog and the corrections map of a new WPMBot   *)
(* A file is missing, malformed or holds a parsed content.                 *)
(***************************************************************************)
File(content) == [status |-> "ok", content |-> content]
Missing == [status |-> "missing", content |-> <<>>]
Malformed == [status |-> "malformed", content |-> <<>>]

\* self.ocr_corrections: set is FALSE while the attribute does not exist
Corrections(set, map) == [set |-> set, map |-> map]

\* a loader that keeps the lookup it built when ocr_corrections.json cannot
\* be parsed
load_code_blocks_keeping_lookup(code_file, corrections_file) ==
    IF code_file.status # "ok"
    THEN [lookup |-> <<>>, corrections |-> Corrections(FALSE, <<>>)]
    ELSE IF corrections_file.status = "ok"
    THEN [lookup |-> build_lookup(code_file.content, 1, <<>>),
          corrections |-> Corrections(TRUE, corrections_file.content)]
    ELSE [lookup |-> build_lookup(code_file.content, 1, <<>>),
          corrections |-> Corrections(TRUE, <<>>)]

\* a loader without the inner except clause: a missing ocr_corrections.json
\* ends in the outer one
load_code_blocks_without_default(code_file, corrections_file) ==
    IF code_file.status # "ok" \/ corrections_file.status # "ok"
    THEN [lookup |-> <<>>, corrections |-> Corrections(FALSE, <<>>)]
    ELSE [lookup |-> build_lookup(code_file.content, 1, <<>>),
          corrections |-> Corrections(TRUE, corrections_file.content)]

\* the value is [lookup, corrections]
load_code_blocks(code_file, corrections_file) ==
    IF code_file.status # "ok"
    THEN [lookup |-> <<>>, corrections |-> Corrections(FALSE, <<>>)]
    ELSE IF corrections_file.status = "missing"
    THEN [lookup |-> build_lookup(code_file.content, 1, <<>>),
          corrections |-> Corrections(TRUE, <<>>)]
    ELSE IF corrections_file.status = "malformed"
    THEN [lookup |-> <<>>, corrections |-> Corrections(FALSE, <<>>)]
    ELSE [lookup |-> build_lookup(code_file.content, 1, <<>>),
          corrections |-> Corrections(TRUE, corrections_file.content)]

(***************************************************************************)
(* Keystroke replay: type_text                                             *)
(* The value is the sequence of key events handed to the browser: a        *)
(* character, or one of the names below.                                   *)
(***************************************************************************)
SHIFT_DOWN == "key_down(SHIFT)"
SHIFT_UP == "key_up(SHIFT)"
SPACE == "SPACE"
ENTER == "ENTER"
ESCAPE == "ESCAPE"

\* text.split('\n'): line holds the characters read since the last newline
RECURSIVE split_lines(_, _)
split_lines(text, line) ==
    IF text = <<>> THEN <<line>>
    ELSE IF Head(text) = "\n" THEN <<line>> \o split_lines(Tail(text), <<>>)
    ELSE split_lines(Tail(text), Append(line, Head(text)))

\* char.isupper()
isupper(char) == LowerChar(char) # char

\* a loop body that sends an upper-case letter as it is
type_char_without_shift(char) ==
    IF char = " " THEN <<SPACE>>
    ELSE <<char>>

\* the body of the loop over the characters of a line
type_char(char) ==
    IF isupper(char) THEN <<SHIFT_DOWN, LowerChar(char), SHIFT_UP>>
    ELSE IF char = " " THEN <<SPACE>>
    ELSE <<char>>

RECURSIVE type_chars(_)
type_chars(stripped_line) ==
    IF stripped_line = <<>> THEN <<>>
    ELSE type_char(Head(stripped_line)) \o type_chars(Tail(stripped_line))

\* the loop over the lines, from the line_idx-th on (counted from 1)
RECURSIVE type_lines(_, _)
type_lines(lines, line_idx) ==
    IF line_idx > Len(lines) THEN <<>>
    ELSE LET stripped_line == lstrip(lines[line_idx])
             enter == IF line_idx < Len(lines) THEN <<ENTER>> ELSE <<>>
         IN (IF stripped_line = <<>> THEN enter
             ELSE type_chars(stripped_line) \o enter)
            \o type_lines(lines, line_idx + 1)

type_text(text) == type_lines(split_lines(text, <<>>), 1)

(***************************************************************************)
(* Suggestion tool (review_unknowns.py)                                    *)
(***************************************************************************)
\* characters in code point order
CharOrder ==
    <<"\n", " ", "1", "2", "3", "4", "5", "A", "B", "D", "E", "F", "Z", "a", "b",
      "c",
      "d", "e", "f", "i", "l", "n", "o", "r", "s", "t", "u", "v", "z">>
Ord(c) == CHOOSE i \in 1..Len(CharOrder) : CharOrder[i] = c

\* Python a < b on strings
RECURSIVE StrLess(_, _)
StrLess(a, b) ==
    IF b = <<>> THEN FALSE
    ELSE IF a = <<>> THEN TRUE
    ELSE IF Head(a) = Head(b) THEN StrLess(Tail(a), Tail(b))
    ELSE Ord(Head(a)) < Ord(Head(b))

\* sorted(S) for a set of strings
RECURSIVE sorted(_)
sorted(S) ==
    IF S = {} THEN <<>>
    ELSE LET least == CHOOSE x \in S : \A y \in S \ {x} : StrLess(x, y)
         IN <<least>> \o sorted(S \ {least})

\* load_available_functions
load_available_functions(blocks) ==
    sorted({lower(blocks[i].title) : i \in 1..Len(blocks)})

\* the similarity the tool computes for one func
tool_similarity(ocr_name, clean_ocr, func) ==
    LET sim1 == calculate_similarity(ocr_name, func)
        sim2 == calculate_similarity(clean_ocr, func)
        similarity == max(sim1, sim2)
    IN IF contains(func, clean_ocr) \/ contains(clean_ocr, func)
       THEN max(similarity, TOOL_BOOST)
       ELSE similarity

Match(func, similarity) == [func |-> func, similarity |-> similarity]

\* the condition under which func is appended to matches
is_match(similarity) == Gt(similarity, TOOL_THRESHOLD)

\* the loop over available that fills matches
RECURSIVE find_matches(_, _, _, _)
find_matches(available, i, ocr_name, clean_ocr) ==
    IF i > Len(available) THEN <<>>
    ELSE LET similarity == tool_similarity(ocr_name, clean_ocr, available[i])
             rest == find_matches(available, i + 1, ocr_name, clean_ocr)
         IN IF is_match(similarity)
            THEN <<Match(available[i], similarity)>> \o rest
            ELSE rest

\* one step of the stable descending sort: m goes behind every match that
\* does not score less
RECURSIVE insert_match(_, _)
insert_match(ms, m) ==
    IF ms = <<>> THEN <<m>>
    ELSE IF Gt(m.similarity, Head(ms).similarity) THEN <<m>> \o ms
    ELSE <<Head(ms)>> \o insert_match(Tail(ms), m)

\* the sort without reverse=True
RECURSIVE sort_matches_ascending(_, _)
sort_matches_ascending(ms, done) ==
    IF ms = <<>> THEN done
    ELSE LET m == Head(ms)
             before == SelectSeq(done, LAMBDA x : ~Gt(x.similarity, m.similarity))
             after == SelectSeq(done, LAMBDA x : Gt(x.similarity, m.similarity))
         IN sort_matches_ascending(Tail(ms), before \o <<m>> \o after)

\* matches.sort(key=lambda x: x[1], reverse=True)
RECURSIVE sort_matches(_, _)
sort_matches(ms, done) ==
    IF ms = <<>> THEN done
    ELSE sort_matches(Tail(ms), insert_match(done, Head(ms)))

SHOWN == 5

\* matches[:5]
top_matches(ms) == SubSeq(ms, 1, IF Len(ms) < SHOWN THEN Len(ms) ELSE SHOWN)

\* the OCR name read back from a record: the text behind "OCR Detected:"
recorded_name(record) == lower(strip(record.name))

\* what the loop body prints for one record
Reviewed(ocr_name, known, top) ==
    [ocr_name |-> ocr_name, known |-> known, top |-> top]

review_record(record, available, existing) ==
    LET ocr_name == recorded_name(record)
        clean_ocr == strip_prefix(ocr_name, 1)
        matches == sort_matches(
                       find_matches(available, 1, ocr_name, clean_ocr), <<>>)
    IN IF HasKey(existing, ocr_name) THEN Reviewed(ocr_name, TRUE, <<>>)
       ELSE Reviewed(ocr_name, FALSE, top_matches(matches))

\* the corrections the tool reads: any failure gives the empty map
existing_corrections(file) == IF file.status = "ok" THEN file.content ELSE <<>>

(***************************************************************************)
(* Inputs                                                                  *)
(***************************************************************************)
MaxLen == 2
MaxUnknown == 2

Alphabet == {"a", "b"}

RECURSIVE WordsOfLen(_)
WordsOfLen(n) ==
    IF n = 0 THEN {<<>>}
    ELSE {Append(w, c) : w \in WordsOfLen(n - 1), c \in Alphabet}

Words == UNION {WordsOfLen(n) : n \in 0..MaxLen}

UpperChar(c) == CASE c = "a" -> "A" [] c = "b" -> "B" [] OTHER -> c
upper(s) == [i \in 1..Len(s) |-> UpperChar(s[i])]

\* what OCR hands over: a word in either case, or a lower-case word behind a
\* keyword, with or without a blank in between
Candidates ==
    Words \cup {upper(w) : w \in Words}
    \cup {PREFIXES[i] \o sep \o w : i \in 1..Len(PREFIXES),
                                   sep \in {<<>>, <<" ">>},
                                   w \in Words}

Languages == {"python", "javascript"}
\* what detect_language_from_screen can return
Screens == {"javascript", "python", "golang"}

Request(name, hint) == [name |-> name, hint |-> hint]

\* every candidate, without a hint
Requests == {Request(n, NoLanguage) : n \in Candidates \cup {None}}

\* a few names that take each path, with every hint
VariantNames ==
    { <<"E", "f", "a">>, <<"a", "b">>, <<"d", "e", "f", "a">>,
      <<"d", "e", "f", "a", "b">>, <<"b">>, <<"z", "z">> }
VariantRequests ==
    {Request(n, h) : n \in VariantNames, h \in Languages \cup {NoLanguage}}

Block(title, language, lines) ==
    [title |-> title, language |-> language, blocks |-> lines]

\* the records a CodeBlocks.json is made of
BlockPool ==
    { Block(<<"A", "b">>, "python", << <<"1">>, <<"\n">> >>),
      Block(<<"e", "f", "a">>, "javascript", << <<"2">> >>),
      Block(<<"E", "f", "a">>, "python", << <<"3">>, <<"4">> >>),
      Block(<<"a", "a", "b">>, NoLanguage, << <<"5">> >>) }

Snapshots ==
    {<<x>> : x \in BlockPool}
    \cup {q \in {<<x, y>> : x \in BlockPool, y \in BlockPool} : q[1] # q[2]}

Entry(k, v) == [key |-> k, value |-> v]

\* the entries an ocr_corrections.json is made of
CorrectionPool ==
    { Entry(<<"a", "b">>, <<"e", "f", "a">>),
      Entry(<<"d", "e", "f", " ", "a", "b">>, <<"z", "z">>),
      Entry(<<"b">>, <<"z", "z">>) }

Tables == {<<>>} \cup {<<e>> : e \in CorrectionPool}

CodeFiles == {File(q) : q \in Snapshots} \cup {Missing, Malformed}
CorrectionFiles == {File(q) : q \in Tables} \cup {Missing, Malformed}

\* a larger catalog for the suggestion tool
LargeSnapshot ==
    << Block(<<"b", "b", "a">>, "python", << <<"1">> >>),
       Block(<<"a", "a", "a">>, "python", << <<"2">> >>),
       Block(<<"A", "a", "b">>, "python", << <<"3">> >>),
       Block(<<"a", "b", "b">>, "python", << <<"4">> >>),
       Block(<<"b", "a", "a">>, "python", << <<"5">> >>),
       Block(<<"a", "a", "a", "a">>, "javascript", << <<"1">> >>),
       Block(<<"a", "a", "a">>, "javascript", << <<"2">> >>) >>

ToolCodeFiles == {File(LargeSnapshot), File(SubSeq(LargeSnapshot, 1, 2))}
ToolCorrectionFiles ==
    {File(<<>>), File(<<Entry(<<"t", "t">>, <<"z", "z">>)>>), Malformed}
ToolRequests ==
    {Request(n, NoLanguage) :
        n \in { <<"a", "b", "a", "b", "a">>, <<" ", "B", "a">>,
                <<"d", "e", "f", "t", "t">>, <<"t", "t">>,
                <<"b", "a", "a">> }}

(***************************************************************************)
(* State                                                                   *)
(***************************************************************************)
VARIABLES
    code_file,          \* CodeBlocks.json
    corrections_file,   \* ocr_corrections.json
    code_blocks,        \* self.code_blocks
    ocr_corrections,    \* self.ocr_corrections, when the attribute is set
    selected_language,  \* self.selected_language
    unknown_count,      \* self.unknown_count
    history,            \* the .txt records in unknown_snippets_history/
    function_name,      \* argument of the last get_code_from_database
    language_hint,      \* argument of the last get_code_from_database
    screen_language,    \* what detect_language_from_screen finds in it
    answer,             \* what the last get_code_from_database did
    reviewed,           \* what the last suggest_corrections printed
    record_written,     \* how the last call's write of a record ended
    session,            \* the number of WPMBot processes started so far
    added,              \* what the last add_correction printed, and when
    s1,                 \* first argument of calculate_similarity
    s2,                 \* second argument of calculate_similarity
    scored,             \* what the scorer computed for s1 and s2
    pc,                 \* where play_typing_challenge is
    challenge_count,    \* its local challenge_count
    prev_function_name, \* its local prev_function_name
    current_function,   \* its local current_function
    code_text,          \* its local code_text, the argument of type_text
    results_detected,   \* whether its last look at the screen saw results
    keys                \* the keys the last iteration sent to the game

vars == <<code_file, corrections_file, code_blocks, ocr_corrections,
          selected_language, unknown_count, history, function_name,
          language_hint, screen_language, answer, reviewed, record_written,
          session, added, s1, s2, scored, pc, challenge_count,
          prev_function_name, current_function, code_text, results_detected,
          keys>>

\* the arguments and the result of the scorer
scorer_vars == <<s1, s2, scored>>
\* the locals of play_typing_challenge and the keys it sends
loop_vars == <<pc, challenge_count, prev_function_name, current_function,
               code_text, results_detected, keys>>

NoAnswer == Answer(None, "none", None, FALSE)

\* "Added correction: 'ocr_error' -> 'correct_name'", printed while the
\* session-th process was the last one started
Added(ocr_error, correct_name, n) ==
    [ocr_error |-> ocr_error, correct_name |-> correct_name, session |-> n]
NoCorrection == Added(None, None, 0)

\* what the scorer returned for one pair of strings
Scored(distance, similarity) ==
    [distance |-> distance, similarity |-> similarity]
NoScore == Scored(-1, Zero)

\* WPMBot.__init__ with the files found on disk
Start(code_files, corrections_files) ==
    /\ code_file \in code_files
    /\ corrections_file \in corrections_files
    /\ LET loaded == load_code_blocks(code_file, corrections_file)
       IN /\ code_blocks = loaded.lookup
          /\ ocr_corrections = loaded.corrections
    /\ selected_language = NoLanguage
    /\ unknown_count = 0
    /\ history = <<>>
    /\ function_name = None
    /\ language_hint = NoLanguage
    /\ screen_language = NoLanguage
    /\ answer = NoAnswer
    /\ reviewed = <<>>
    /\ record_written = "none"
    /\ session = 1
    /\ added = NoCorrection
    /\ scored = NoScore
    /\ pc = "start"
    /\ challenge_count = 0
    /\ prev_function_name = None
    /\ current_function = None
    /\ results_detected = FALSE
    /\ keys = <<>>

\* no scorer call and no text to type is pending
NoArguments == s1 = None /\ s2 = None /\ code_text = None

\* start_game_sequence: the language typed into the menu is remembered
start_game_sequence ==
    /\ pc = "start"
    /\ selected_language = NoLanguage
    /\ answer = NoAnswer
    /\ \E language \in Languages : selected_language' = language
    /\ UNCHANGED <<code_file, corrections_file, code_blocks, ocr_corrections,
                   unknown_count, history, function_name,
                   language_hint, screen_language, answer, reviewed,
                   record_written, session, added, scorer_vars,
                   loop_vars>>

\* the record save_unknown_function_screenshot writes
UnknownRecord(count, name, language) ==
    [count |-> count, name |-> name, language |-> language]

\* a recorder that keeps one record for each name
save_unknown_once_per_name(name, written) ==
    /\ unknown_count' = unknown_count + 1
    /\ history' = IF written /\ \A i \in 1..Len(history) : history[i].name # name
                  THEN Append(history,
                         UnknownRecord(unknown_count + 1, name,
                                       selected_language))
                  ELSE history

\* a recorder that counts a record only once its file is written
save_unknown_counting_written(name, written) ==
    /\ unknown_count' = IF written THEN unknown_count + 1 ELSE unknown_count
    /\ history' = IF written
                  THEN Append(history,
                         UnknownRecord(unknown_count + 1, name,
                                       selected_language))
                  ELSE history

\* save_unknown_function_screenshot: written is FALSE when a file operation
\* raised, which the except clause swallows
save_unknown_function_screenshot(name, written) ==
    /\ unknown_count' = unknown_count + 1
    /\ history' = IF written
                  THEN Append(history,
                         UnknownRecord(unknown_count + 1, name,
                                       selected_language))
                  ELSE history

\* a call that lets the exception of a failed write through to its caller
GetCodeRaising(requests, screens) ==
    /\ \E request \in requests, screen \in screens :
        LET a == get_code_from_database(code_blocks, ocr_corrections,
                     selected_language, request.name, request.hint, screen)
        IN /\ function_name' = request.name
           /\ language_hint' = request.hint
           /\ screen_language' = screen
           /\ IF a.via = "unknown"
              THEN \E written \in BOOLEAN :
                       /\ save_unknown_function_screenshot(request.name,
                                                           written)
                       /\ record_written' = IF written THEN "written"
                                            ELSE "failed"
                       /\ answer' = IF written THEN a
                                    ELSE Answer(None, "raised", None, FALSE)
              ELSE /\ UNCHANGED <<unknown_count, history>>
                   /\ record_written' = "none"
                   /\ answer' = a
    /\ UNCHANGED <<code_file, corrections_file, code_blocks, ocr_corrections,
                   selected_language, reviewed, session, added,
                   scorer_vars, loop_vars>>

\* what one call of get_code_from_database does to the bot and to the
\* record directory
get_code_call(name, hint, screen) ==
    LET a == get_code_from_database(code_blocks, ocr_corrections,
                 selected_language, name, hint, screen)
    IN /\ function_name' = name
       /\ language_hint' = hint
       /\ screen_language' = screen
       /\ answer' = a
       /\ IF a.via = "unknown"
          THEN \E written \in BOOLEAN :
                   /\ save_unknown_function_screenshot(name, written)
                   /\ record_written' = IF written THEN "written"
                                        ELSE "failed"
          ELSE /\ UNCHANGED <<unknown_count, history>>
               /\ record_written' = "none"

\* one call of get_code_from_database with its side effects
GetCode(requests, screens) ==
    /\ \E request \in requests, screen \in screens :
           get_code_call(request.name, request.hint, screen)
    /\ UNCHANGED <<code_file, corrections_file, code_blocks, ocr_corrections,
                   selected_language, reviewed, session, added,
                   scorer_vars, loop_vars>>

\* a tool that applies its best suggestion for each record by itself
suggest_corrections_applying_best ==
    /\ history # <<>>
    /\ code_file.status = "ok"
    /\ reviewed = <<>>
    /\ LET available == load_available_functions(code_file.content)
           existing == existing_corrections(corrections_file)
           printed == [i \in 1..Len(history) |->
                          review_record(history[i], available, existing)]
           best == SelectSeq(printed, LAMBDA r : r.top # <<>>)
       IN /\ reviewed' = printed
          /\ corrections_file' =
                IF best = <<>> THEN corrections_file
                ELSE File(Put(existing, best[1].ocr_name, best[1].top[1].func))
    /\ UNCHANGED <<code_file, code_blocks, ocr_corrections,
                   selected_language, unknown_count, history, function_name,
                   language_hint, screen_language, answer, record_written,
                   session, added, scorer_vars, loop_vars>>

\* suggest_corrections: every record is reviewed against CodeBlocks.json and
\* the corrections on disk
suggest_corrections ==
    /\ history # <<>>
    /\ code_file.status = "ok"
    /\ reviewed = <<>>
    /\ LET available == load_available_functions(code_file.content)
           existing == existing_corrections(corrections_file)
       IN reviewed' = [i \in 1..Len(history) |->
                          review_record(history[i], available, existing)]
    /\ UNCHANGED <<code_file, corrections_file, code_blocks, ocr_corrections,
                   selected_language, unknown_count, history, function_name,
                   language_hint, screen_language, answer, record_written,
                   session, added, scorer_vars, loop_vars>>

(***************************************************************************)
(* Spec: one request against every catalog and corrections table.  The     *)
(* call reads code_blocks, ocr_corrections and selected_language and       *)
(* writes none of them, so a behaviour resolves a single request.          *)
(***************************************************************************)
Init == Start(CodeFiles, CorrectionFiles) /\ NoArguments

Resolve == answer = NoAnswer /\ GetCode(Requests, {"javascript"})

Next == start_game_sequence \/ Resolve

Spec == Init /\ [][Next]_vars

(***************************************************************************)
(* SpecVariant: one request with every hint and every screen language      *)
(***************************************************************************)
ResolveVariant == answer = NoAnswer /\ GetCode(VariantRequests, Screens)

NextVariant == start_game_sequence \/ ResolveVariant

SpecVariant == Init /\ [][NextVariant]_vars

(***************************************************************************)
(* SpecTool: a session of several requests whose failures are recorded,    *)
(* and the suggestion tool run on the records.                             *)
(***************************************************************************)
InitTool == Start(ToolCodeFiles, ToolCorrectionFiles) /\ NoArguments

Play ==
    /\ unknown_count < MaxUnknown
    /\ reviewed = <<>>
    /\ GetCode(ToolRequests, {"javascript"})

NextTool == start_game_sequence \/ Play \/ suggest_corrections

SpecTool == InitTool /\ [][NextTool]_vars

(***************************************************************************)
(* Correction maintenance (add_ocr_correction.py) and later sessions       *)
(***************************************************************************)
MaxSessions == 2

\* data['corrections'][ocr_lower] = correct_lower
upsert(corrections, ocr_error, correct_name) ==
    Put(corrections, lower(ocr_error), lower(correct_name))

\* the corrections add_correction starts from
loaded_corrections(file) == IF file.status = "missing" THEN <<>> ELSE file.content

\* an upsert that keeps the value a key already has
add_correction_first_write_wins(ocr_error, correct_name, interrupted) ==
    /\ IF corrections_file.status = "malformed"
       THEN UNCHANGED <<corrections_file, added>>
       ELSE IF interrupted
       THEN corrections_file' = Malformed /\ UNCHANGED added
       ELSE LET data == loaded_corrections(corrections_file)
            IN /\ corrections_file' =
                     File(IF HasKey(data, lower(ocr_error)) THEN data
                          ELSE upsert(data, ocr_error, correct_name))
               /\ added' = Added(ocr_error, correct_name, session)
    /\ UNCHANGED <<code_file, code_blocks, ocr_corrections, selected_language,
                   unknown_count, history, function_name, language_hint,
                   screen_language, answer, reviewed, record_written,
                   session, scorer_vars, loop_vars>>

\* add_correction: json.load of a malformed file raises and nothing is
\* written; interrupted is TRUE when the process ends between open(.., 'w'),
\* which empties the file, and the end of json.dump
add_correction(ocr_error, correct_name, interrupted) ==
    /\ IF corrections_file.status = "malformed"
       THEN UNCHANGED <<corrections_file, added>>
       ELSE IF interrupted
       THEN corrections_file' = Malformed /\ UNCHANGED added
       ELSE /\ corrections_file' =
                  File(upsert(loaded_corrections(corrections_file),
                              ocr_error, correct_name))
            /\ added' = Added(ocr_error, correct_name, session)
    /\ UNCHANGED <<code_file, code_blocks, ocr_corrections, selected_language,
                   unknown_count, history, function_name, language_hint,
                   screen_language, answer, reviewed, record_written,
                   session, scorer_vars, loop_vars>>

\* a new process: WPMBot.__init__ with the files as they are now; the
\* records in unknown_snippets_history stay
new_session ==
    /\ session < MaxSessions
    /\ LET loaded == load_code_blocks(code_file, corrections_file)
       IN /\ code_blocks' = loaded.lookup
          /\ ocr_corrections' = loaded.corrections
    /\ selected_language' = NoLanguage
    /\ unknown_count' = 0
    /\ function_name' = None
    /\ language_hint' = NoLanguage
    /\ screen_language' = NoLanguage
    /\ answer' = NoAnswer
    /\ record_written' = "none"
    /\ session' = session + 1
    /\ UNCHANGED <<code_file, corrections_file, history, reviewed, added,
                   scorer_vars, loop_vars>>

(***************************************************************************)
(* SpecMaintain: add_correction over every table it can build              *)
(***************************************************************************)
OcrErrors == { <<"Z", "z">>, <<"b", "b">>, <<>> }
CorrectNames == { <<"E", "f", "a">>, <<"a", "b">>, <<>> }

LoopSnapshot ==
    << Block(<<"e", "f", "a">>, "javascript", << <<"2">> >>),
       Block(<<"E", "f", "a">>, "python", << <<"3">>, <<"4">> >>),
       Block(<<"a", "b">>, "python", << <<"1">> >>) >>

MaintainCorrectionFiles ==
    {Missing, Malformed, File(<<>>),
     File(<<Entry(<<"z", "z">>, <<"a", "b">>)>>)}

InitMaintain ==
    Start({File(LoopSnapshot)}, MaintainCorrectionFiles) /\ NoArguments

AddCorrection ==
    \E x \in OcrErrors, y \in CorrectNames, interrupted \in BOOLEAN :
        add_correction(x, y, interrupted)

NextMaintain == AddCorrection

SpecMaintain == InitMaintain /\ [][NextMaintain]_vars

(***************************************************************************)
(* SpecLoop: sessions of one request each, with corrections added between  *)
(* and during them                                                         *)
(***************************************************************************)
LoopRequests ==
    {Request(n, NoLanguage) :
        n \in { <<"z", "z">>, <<"B", "b">>, <<"a", "b", "b">> }}

LoopCorrectionFiles ==
    {Missing, Malformed, File(<<Entry(<<"q">>, <<"e", "f", "a">>)>>)}

InitLoop == Start({File(LoopSnapshot)}, LoopCorrectionFiles) /\ NoArguments

PlayLoop == answer = NoAnswer /\ GetCode(LoopRequests, {"javascript"})

AddLoopCorrection ==
    \E x \in { <<"z", "z">>, <<"B", "b">> }, interrupted \in BOOLEAN :
        add_correction(x, <<"E", "f", "a">>, interrupted)

NextLoop == PlayLoop \/ AddLoopCorrection \/ new_session

SpecLoop == InitLoop /\ [][NextLoop]_vars

(***************************************************************************)
(* play_typing_challenge: the loop over the challenges of a game           *)
(***************************************************************************)
max_challenges == 10

\* the call of play_typing_challenge, up to its while loop
play_typing_challenge ==
    /\ pc = "start"
    /\ pc' = "loop"
    /\ challenge_count' = 0
    /\ prev_function_name' = None
    /\ UNCHANGED <<code_file, corrections_file, code_blocks, ocr_corrections,
                   selected_language, unknown_count, history, function_name,
                   language_hint, screen_language, answer, reviewed,
                   record_written, session, added, scorer_vars,
                   current_function, code_text, results_detected, keys>>

\* a loop body that gives the game up at the first candidate without code
challenge_ending_on_failure(first, second, screen, results) ==
    LET same == Truthy(first) /\ first = prev_function_name
        current == IF same THEN second ELSE first
        code == IF Truthy(current)
                THEN get_code_from_database(code_blocks, ocr_corrections,
                         selected_language, current, NoLanguage, screen).code
                ELSE None
    IN /\ pc = "loop"
       /\ challenge_count < max_challenges
       /\ challenge_count' = challenge_count + 1
       /\ current_function' = current
       /\ UNCHANGED <<code_file, corrections_file, code_blocks,
                      ocr_corrections, selected_language, reviewed, session,
                      added, scorer_vars>>
       /\ IF same /\ second = prev_function_name
          THEN /\ pc' = "finished"
               /\ keys' = <<>>
               /\ UNCHANGED <<unknown_count, history, function_name,
                              language_hint, screen_language, answer,
                              record_written, prev_function_name, code_text,
                              results_detected>>
          ELSE /\ IF Truthy(current)
                  THEN get_code_call(current, NoLanguage, screen)
                  ELSE UNCHANGED <<unknown_count, history, function_name,
                                   language_hint, screen_language, answer,
                                   record_written>>
               /\ code_text' = code
               /\ IF ~Truthy(code) \/ Len(code) < 10
                  THEN /\ results_detected' = results
                       /\ pc' = "finished"
                       /\ keys' = <<>>
                       /\ UNCHANGED prev_function_name
                  ELSE /\ results_detected' = FALSE
                       /\ keys' = type_text(code)
                       /\ prev_function_name' = current
                       /\ pc' = "loop"

\* one pass through the body of the while loop: first and second are what
\* extract_function_name reads before and after the longer wait, screen is
\* what detect_language_from_screen finds, results is whether the full
\* text of the screen shows WPM or ACCURACY
challenge(first, second, screen, results) ==
    LET same == Truthy(first) /\ first = prev_function_name
        current == IF same THEN second ELSE first
        code == IF Truthy(current)
                THEN get_code_from_database(code_blocks, ocr_corrections,
                         selected_language, current, NoLanguage, screen).code
                ELSE None
    IN /\ pc = "loop"
       /\ challenge_count < max_challenges
       /\ challenge_count' = challenge_count + 1
       /\ current_function' = current
       /\ UNCHANGED <<code_file, corrections_file, code_blocks,
                      ocr_corrections, selected_language, reviewed, session,
                      added, scorer_vars>>
       /\ IF same /\ second = prev_function_name
          THEN /\ pc' = "finished"
               /\ keys' = <<>>
               /\ UNCHANGED <<unknown_count, history, function_name,
                              language_hint, screen_language, answer,
                              record_written, prev_function_name, code_text,
                              results_detected>>
          ELSE /\ IF Truthy(current)
                  THEN get_code_call(current, NoLanguage, screen)
                  ELSE UNCHANGED <<unknown_count, history, function_name,
                                   language_hint, screen_language, answer,
                                   record_written>>
               /\ code_text' = code
               /\ IF ~Truthy(code) \/ Len(code) < 10
                  THEN /\ results_detected' = results
                       /\ pc' = IF results THEN "finished" ELSE "loop"
                       /\ keys' = IF results THEN <<>> ELSE <<ESCAPE>>
                       /\ UNCHANGED prev_function_name
                  ELSE /\ results_detected' = FALSE
                       /\ keys' = type_text(code)
                       /\ prev_function_name' = current
                       /\ pc' = "loop"

\* the while condition fails
loop_finished ==
    /\ pc = "loop"
    /\ challenge_count >= max_challenges
    /\ pc' = "finished"
    /\ UNCHANGED <<code_file, corrections_file, code_blocks, ocr_corrections,
                   selected_language, unknown_count, history, function_name,
                   language_hint, screen_language, answer, reviewed,
                   record_written, session, added, scorer_vars,
                   challenge_count, prev_function_name, current_function,
                   code_text, results_detected, keys>>

(***************************************************************************)
(* SpecPlay: a game of up to max_challenges challenges                     *)
(***************************************************************************)
PlaySnapshot ==
    << Block(<<"a", "b">>, "python",
             << <<"A", "b", " ", "b", "\n">>,
                <<" ", " ", "b", "\n", "\n", "b", "b">> >>),
       Block(<<"e", "f", "a">>, "javascript", << <<"2">> >>) >>

\* what extract_function_name returns: a lower-case name or None
PlayNames == { None, <<"a", "b">>, <<"e", "f", "a">>, <<"z", "z">> }

InitPlay == Start({File(PlaySnapshot)}, {Missing}) /\ NoArguments

\* at most MaxUnknown candidates of a game are unresolved
PlayChallenge ==
    /\ \E first \in PlayNames, second \in PlayNames, results \in BOOLEAN :
           challenge(first, second, "javascript", results)
    /\ unknown_count' <= MaxUnknown

NextPlay ==
    start_game_sequence \/ play_typing_challenge \/ PlayChallenge
        \/ loop_finished

SpecPlay == InitPlay /\ [][NextPlay]_vars

(***************************************************************************)
(* SpecPrefix: a candidate that is a keyword by itself                     *)
(***************************************************************************)
PrefixPool ==
    { Block(<<"a", "b">>, "python", << <<"1">> >>),
      Block(<<"u", "n", "c", "t", "i", "o", "n">>, "javascript", << <<"2">> >>),
      Block(<<"F", "u", "n", "c", "t", "i", "o", "n", "s">>, "python",
            << <<"3">> >>),
      Block(<<"l", "e", "t">>, "python", << <<"4">> >>) }

PrefixSnapshots ==
    {<<x>> : x \in PrefixPool}
    \cup {q \in {<<x, y>> : x \in PrefixPool, y \in PrefixPool} : q[1] # q[2]}

PrefixCodeFiles == {File(q) : q \in PrefixSnapshots} \cup {Missing}

PrefixCorrectionFiles ==
    {Missing, File(<<Entry(<<"d", "e", "f">>, <<"a", "b">>)>>)}

\* the six keywords, one of them also in upper case
PrefixRequests ==
    {Request(PREFIXES[i], NoLanguage) : i \in 1..Len(PREFIXES)}
    \cup {Request(<<"D", "E", "F">>, NoLanguage)}

InitPrefix == Start(PrefixCodeFiles, PrefixCorrectionFiles) /\ NoArguments

ResolvePrefix == answer = NoAnswer /\ GetCode(PrefixRequests, {"javascript"})

NextPrefix == start_game_sequence \/ ResolvePrefix

SpecPrefix == InitPrefix /\ [][NextPrefix]_vars

(***************************************************************************)
(* SpecScore: the scorer on every pair of short strings                    *)
(***************************************************************************)
ScoreLen == MaxLen + 2

RECURSIVE StringsOfLen(_)
StringsOfLen(n) ==
    IF n = 0 THEN {<<>>}
    ELSE {Append(w, c) : w \in StringsOfLen(n - 1), c \in Alphabet}

Strings == UNION {StringsOfLen(n) : n \in 0..ScoreLen}

InitScore ==
    /\ Start({File(LoopSnapshot)}, {Missing})
    /\ s1 \in Strings
    /\ s2 \in Strings
    /\ code_text = None

\* one call of calculate_similarity, and of levenshtein_distance by itself
CallScorer ==
    /\ scored = NoScore
    /\ scored' = Scored(levenshtein_distance(s1, s2),
                        calculate_similarity(s1, s2))
    /\ UNCHANGED <<code_file, corrections_file, code_blocks, ocr_corrections,
                   selected_language, unknown_count, history, function_name,
                   language_hint, screen_language, answer, reviewed,
                   record_written, session, added, s1, s2, loop_vars>>

NextScore == CallScorer

SpecScore == InitScore /\ [][NextScore]_vars

(***************************************************************************)
(* SpecType: type_text on every short text                                 *)
(***************************************************************************)
TypeLen == MaxLen + 3
TypeAlphabet == {" ", "\t", "\n", "A", "b"}

RECURSIVE TextsOfLen(_)
TextsOfLen(n) ==
    IF n = 0 THEN {<<>>}
    ELSE {Append(w, c) : w \in TextsOfLen(n - 1), c \in TypeAlphabet}

Texts == UNION {TextsOfLen(n) : n \in 0..TypeLen}

InitType ==
    /\ Start({File(LoopSnapshot)}, {Missing})
    /\ s1 = None
    /\ s2 = None
    /\ code_text \in Texts

\* one call of type_text, as the typing tests make it
TypeText ==
    /\ pc = "start"
    /\ keys' = type_text(code_text)
    /\ pc' = "typed"
    /\ UNCHANGED <<code_file, corrections_file, code_blocks, ocr_corrections,
                   selected_language, unknown_count, history, function_name,
                   language_hint, screen_language, answer, reviewed,
                   record_written, session, added, scorer_vars,
                   challenge_count, prev_function_name, current_function,
                   code_text, results_detected>>

NextType == TypeText

SpecType == InitType /\ [][NextType]_vars

(***************************************************************************)
(* Vocabulary of the properties                                            *)
(***************************************************************************)
\* a request has been resolved
Called == answer.via # "none"
\* ... and its candidate was a non-empty string
Named == Called /\ function_name # None /\ function_name # <<>>
\* the lowercased candidate
Candidate == lower(function_name)
\* the candidate after prefix stripping
Clean == strip_prefix(Candidate, 1)

Identifiers == {code_blocks[i].key : i \in 1..Len(code_blocks)}
VariantsOf(k) ==
    (CHOOSE e \in {code_blocks[i] : i \in 1..Len(code_blocks)} : e.key = k).value
BodiesOf(k) == {VariantsOf(k)[i].value : i \in 1..Len(VariantsOf(k))}
LanguagesOf(k) == {VariantsOf(k)[i].key : i \in 1..Len(VariantsOf(k))}

\* the Correction Table maps c to k
TableMaps(c, k) ==
    /\ ocr_corrections.set
    /\ \E i \in 1..Len(ocr_corrections.map) :
           ocr_corrections.map[i].key = c /\ ocr_corrections.map[i].value = k
InTable(c) ==
    /\ ocr_corrections.set
    /\ \E i \in 1..Len(ocr_corrections.map) : ocr_corrections.map[i].key = c

\* the table has an entry for the candidate whose target is no Catalog key
StaleCorrection ==
    InTable(Candidate) /\ \A k \in Identifiers : ~TableMaps(Candidate, k)

\* the stage-4 score of an identifier for the candidate
Score(id) == boosted_similarity(Candidate, Clean, id)

(***************************************************************************)
(* C1: a candidate whose lowercased form is a Catalog key is resolved to a *)
(* body stored under that key, whatever the Correction Table holds.        *)
(***************************************************************************)
C1_ExactMatchFirst ==
    (Named /\ Candidate \in Identifiers) => answer.code \in BodiesOf(Candidate)

\* an exact match for a candidate the table maps to another identifier
C1_Witness ==
    /\ Named
    /\ Candidate \in Identifiers
    /\ \E k \in Identifiers \ {Candidate} : TableMaps(Candidate, k)
    /\ answer.code \in BodiesOf(Candidate)

(***************************************************************************)
(* C2: a candidate that is no Catalog key and that the Correction Table    *)
(* maps to a Catalog key k is resolved to a body of k, also when another   *)
(* identifier scores higher or is in a substring relation with it.         *)
(***************************************************************************)
C2_CorrectionBypassesFuzzy ==
    \A k \in Identifiers :
        (Named /\ Candidate \notin Identifiers /\ TableMaps(Candidate, k))
            => answer.code \in BodiesOf(k)

\* a correction applied while another identifier contains the candidate and
\* scores higher
C2_Witness ==
    /\ Named
    /\ Candidate \notin Identifiers
    /\ \E k \in Identifiers :
          /\ TableMaps(Candidate, k)
          /\ answer.code \in BodiesOf(k)
          /\ \E other \in Identifiers \ {k} :
                /\ Gt(Score(other), Score(k))
                /\ contains(Candidate, other)

(***************************************************************************)
(* C3 (as claimed): when the Correction Table maps the candidate to a name *)
(* that is no Catalog key, fuzzy scoring still runs, so an identifier      *)
(* scoring above 0.6 is found.                                             *)
(***************************************************************************)
C3_StaleCorrectionFallsThrough ==
    ( /\ Named
      /\ Candidate \notin Identifiers
      /\ StaleCorrection
      /\ \E id \in Identifiers : Gt(Score(id), THRESHOLD) )
        => ( /\ answer.code # None
             /\ answer.key \in Identifiers
             /\ Gt(Score(answer.key), THRESHOLD) )

(***************************************************************************)
(* C4                                                                      *)
(***************************************************************************)
\* the candidate starts with the i-th prefix token and with none before it
FirstPrefix(i) ==
    /\ startswith(Candidate, PREFIXES[i])
    /\ \A j \in 1..(i - 1) : ~startswith(Candidate, PREFIXES[j])

\* stage 4 decides: the candidate is no Catalog key and has no table entry
Stage4Decides ==
    Named /\ Candidate \notin Identifiers /\ ~InTable(Candidate)

\* C4 (as claimed): prefix stripping removes one leading token, the first
\* that matches, and for a candidate made of a prefix token, a space and a
\* Catalog identifier the cleaned candidate equals the identifier, its
\* similarity to the identifier is 1.0 and stage 4 resolves the request.
C4_CleanedEqualsIdentifier ==
    \A i \in 1..Len(PREFIXES), id \in Identifiers :
        (Stage4Decides /\ Candidate = PREFIXES[i] \o <<" ">> \o id)
            => /\ Clean = id
               /\ Eq(calculate_similarity(Clean, id), One)
               /\ answer.via = "corrected"

\* C4 (amended): prefix stripping removes the characters of one leading
\* token, the first that matches, and nothing else.  For a candidate made of
\* a prefix token, a space and a Catalog identifier of n characters the
\* cleaned candidate is the space followed by the identifier, its similarity
\* to the identifier is n/(n+1), and stage 4 resolves the request to an
\* identifier scoring at least 0.85.  When the token is directly followed by
\* the identifier, the cleaned candidate equals the identifier, the
\* similarity is 1.0 and stage 4 resolves the request to that identifier.
C4_PrefixStripping ==
    /\ \A i \in 1..Len(PREFIXES) :
          (Named /\ FirstPrefix(i))
              => PREFIXES[i] \o Clean = Candidate
    /\ (Named /\ \A i \in 1..Len(PREFIXES) : ~FirstPrefix(i))
          => Clean = Candidate
    /\ \A i \in 1..Len(PREFIXES), id \in Identifiers :
          /\ (Stage4Decides /\ FirstPrefix(i)
                 /\ Candidate = PREFIXES[i] \o <<" ">> \o id)
                => /\ Clean = <<" ">> \o id
                   /\ calculate_similarity(Clean, id) = <<Len(id), Len(id) + 1>>
                   /\ answer.via = "corrected"
                   /\ answer.key \in Identifiers
                   /\ Ge(Score(answer.key), <<17, 20>>)
          /\ (Stage4Decides /\ FirstPrefix(i) /\ Candidate = PREFIXES[i] \o id)
                => /\ Clean = id
                   /\ Eq(calculate_similarity(Clean, id), One)
                   /\ answer.via = "corrected"
                   /\ answer.key = id

\* "function", a space and an identifier, resolved by stage 4
C4_Witness ==
    /\ Stage4Decides
    /\ FirstPrefix(3)
    /\ \E id \in Identifiers :
          /\ Candidate = PREFIXES[3] \o <<" ">> \o id
          /\ answer.via = "corrected"
          /\ answer.key = id

(***************************************************************************)
(* C5: when stage 4 decides, it returns an identifier exactly if the       *)
(* highest score of a Catalog identifier is strictly above 0.6, and the    *)
(* identifier it returns has the highest score; the score of id is the     *)
(* larger of similarity(candidate, id) and similarity(clean, id), raised   *)
(* to at least 0.85 when one of id and clean contains the other.           *)
(***************************************************************************)
ClaimedScore(id) ==
    LET a == calculate_similarity(Candidate, id)
        b == calculate_similarity(Clean, id)
        larger == IF Gt(a, b) THEN a ELSE b
    IN IF (contains(id, Clean) \/ contains(Clean, id)) /\ Gt(<<17, 20>>, larger)
       THEN <<17, 20>>
       ELSE larger

C5_FuzzyAcceptance ==
    Stage4Decides =>
        /\ answer.via = "corrected"
             <=> \E id \in Identifiers : Gt(ClaimedScore(id), <<3, 5>>)
        /\ answer.via = "corrected"
             => /\ answer.key \in Identifiers
                /\ \A id \in Identifiers :
                      Ge(ClaimedScore(answer.key), ClaimedScore(id))

\* the highest score is exactly 0.6 and stage 4 returns nothing
C5_Witness ==
    /\ Stage4Decides
    /\ \E id \in Identifiers : Eq(ClaimedScore(id), <<3, 5>>)
    /\ \A id \in Identifiers : ~Gt(ClaimedScore(id), <<3, 5>>)
    /\ answer.via # "corrected"

(***************************************************************************)
(* Variant selection                                                       *)
(***************************************************************************)
\* a source was returned
Resolved == Called /\ answer.code # None /\ answer.key \in Identifiers
\* the body stored under the chosen identifier for a language
BodyOf(language) ==
    LET v == VariantsOf(answer.key)
    IN (CHOOSE e \in {v[i] : i \in 1..Len(v)} : e.key = language).value
FirstLanguage == VariantsOf(answer.key)[1].key

\* C6: whichever stage chose the identifier, if selected_language is among
\* the chosen identifier's variants, the returned body is that language's
\* variant, whatever language_hint says.
C6_StickyLanguageWins ==
    (Resolved /\ selected_language \in LanguagesOf(answer.key))
        => answer.code = BodyOf(selected_language)

\* C7: whichever stage chose the identifier, when selected_language is
\* unset or not among the variants, the body returned is that of
\* language_hint if it is among the variants, otherwise that of the
\* screen-detected language if it is among them, otherwise the first
\* variant in insertion order.
C7_VariantPriority ==
    (Resolved /\ selected_language \notin LanguagesOf(answer.key))
        => answer.code =
             BodyOf(IF language_hint \in LanguagesOf(answer.key)
                    THEN language_hint
                    ELSE IF screen_language \in LanguagesOf(answer.key)
                    THEN screen_language
                    ELSE FirstLanguage)

(***************************************************************************)
(* C8: every value returned other than None is, unmodified, a body stored  *)
(* in the Catalog under the chosen identifier: the joined lines of a block *)
(* of CodeBlocks.json whose lowercased title is that identifier; and the   *)
(* chosen identifier is the candidate (exact match), the target of the     *)
(* candidate's correction or an identifier scoring above 0.6 (correction   *)
(* lookup and fuzzy scoring), or an identifier in a substring relation     *)
(* with the candidate (substring fallback).                                *)
(***************************************************************************)
StoredBlocks(k) ==
    {b \in {code_file.content[i] : i \in 1..Len(code_file.content)} :
        lower(b.title) = k}

C8_ExactStoredSource ==
    (Called /\ answer.code # None) =>
        /\ answer.key \in Identifiers
        /\ answer.code \in BodiesOf(answer.key)
        /\ \E b \in StoredBlocks(answer.key) : answer.code = join(b.blocks)
        /\ answer.via \in {"exact", "corrected", "substring"}
        /\ answer.via = "exact" => answer.key = Candidate
        /\ answer.via = "corrected"
             => \/ TableMaps(Candidate, answer.key)
                \/ Gt(Score(answer.key), <<3, 5>>)
        /\ answer.via = "substring"
             => \/ contains(Candidate, answer.key)
                \/ contains(answer.key, Candidate)

\* the substring fallback chose the second identifier of the Catalog, whose
\* bodies are not those of the first
C8_Witness ==
    /\ Called
    /\ answer.via = "substring"
    /\ Len(code_blocks) = 2
    /\ answer.key = code_blocks[2].key
    /\ answer.code \in BodiesOf(answer.key)
    /\ answer.code \notin BodiesOf(code_blocks[1].key)

(***************************************************************************)
(* C9                                                                      *)
(***************************************************************************)
\* a call with a candidate that is no Catalog key, has no correction to a
\* Catalog key, and that no Catalog identifier scores above 0.6
NothingAccepted ==
    /\ Called
    /\ function_name # None
    /\ Candidate \notin Identifiers
    /\ \A k \in Identifiers : ~TableMaps(Candidate, k)
    /\ \A id \in Identifiers : ~Gt(Score(id), <<3, 5>>)

\* no Catalog identifier contains the lowercased candidate or is contained
\* in it
NoSubstringRelation ==
    \A id \in Identifiers :
        ~contains(Candidate, id) /\ ~contains(id, Candidate)

\* C9 (as claimed): if the candidate (a non-empty string, as the callers
\* pass it) is not a Catalog key, has no usable correction, and no Catalog
\* identifier scores above 0.6, no source is returned and the Unknown
\* Recorder is invoked.
C9_UnresolvedBelowThreshold ==
    (NothingAccepted /\ function_name # <<>>)
        => (answer.code = None /\ unknown_count = 1)

\* C9 (amended): if the candidate is not a Catalog key, has no usable
\* correction, no Catalog identifier scores above 0.6 and no Catalog
\* identifier is in a substring relation with the lowercased candidate, no
\* source is returned, and the Unknown Recorder is invoked exactly when the
\* candidate is not empty.
C9_UnresolvedAndRecorded ==
    (NothingAccepted /\ NoSubstringRelation)
        => /\ answer.code = None
           /\ unknown_count = (IF function_name = <<>> THEN 0 ELSE 1)

\* an identifier scores exactly 0.6, nothing is accepted and the request is
\* recorded
C9_Witness ==
    /\ NothingAccepted
    /\ NoSubstringRelation
    /\ function_name # <<>>
    /\ ~InTable(Candidate)
    /\ \E id \in Identifiers : Eq(Score(id), <<3, 5>>)
    /\ answer.code = None
    /\ unknown_count = 1

(***************************************************************************)
(* C10                                                                     *)
(***************************************************************************)
\* the identifiers suggest_corrections reads from CodeBlocks.json
ToolIdentifiers ==
    {lower(code_file.content[i].title) : i \in 1..Len(code_file.content)}

\* the score of the suggestion list: stage 4's score with the floor 0.8
DisplayScore(name, id) ==
    LET a == calculate_similarity(name, id)
        b == calculate_similarity(strip_prefix(name, 1), id)
        larger == IF Gt(a, b) THEN a ELSE b
        clean == strip_prefix(name, 1)
    IN IF (contains(id, clean) \/ contains(clean, id)) /\ Gt(<<4, 5>>, larger)
       THEN <<4, 5>>
       ELSE larger

\* the identifiers above the display threshold 0.5
Displayable(name) ==
    {id \in ToolIdentifiers : Gt(DisplayScore(name, id), <<1, 2>>)}

Listed(top) == {top[j].func : j \in 1..Len(top)}

Descending(top) ==
    \A j, k \in 1..Len(top) :
        j < k => Ge(top[j].similarity, top[k].similarity)

C11_ContiguousSequenceNumbers ==
    \A i \in 1..Len(history) : history[i].count = i

\* C12 (as claimed): recording never changes an earlier record, and
\* resolving an unresolved candidate n times produces n distinct records.
C12_OneRecordPerFailure ==
    /\ Len(history) = unknown_count
    /\ \A i, j \in 1..Len(history) : i # j => history[i] # history[j]

\* C12 (amended): recording never changes an earlier record, and every
\* resolution of an unresolved candidate whose write does not fail appends
\* one new record, with the candidate and a sequence number no earlier
\* record of the process has, also when the same candidate was recorded
\* before; a resolution whose write fails leaves the records as they were.
C12_AppendOnlyWithoutDeduplication ==
    [][/\ (unknown_count' = unknown_count + 1 /\ record_written' = "written")
          => /\ history' = Append(history,
                              UnknownRecord(unknown_count', function_name',
                                            selected_language))
             /\ \A i \in 1..Len(history) :
                    history[i].count # unknown_count'
       /\ ~(unknown_count' = unknown_count + 1 /\ record_written' = "written")
          => history' = history]_vars

\* the same candidate was recorded twice
C12_Witness ==
    /\ Len(history) = 2
    /\ history[1].name = history[2].name
    /\ history[1] # history[2]

\* C13: a failure to write an Unknown Record does not end the session: the
\* call whose write fails returns the unresolved result, no exception
\* reaches the caller, the records and the bot are as before.
C13_WriteFailureIsSwallowed ==
    [][(unknown_count' = unknown_count + 1 /\ record_written' = "failed")
          => /\ answer'.via = "unknown"
             /\ answer'.code = None
             /\ history' = history
             /\ UNCHANGED <<code_blocks, ocr_corrections,
                            selected_language>>]_vars

\* a write failed and the next failure of the session was recorded
C13_Witness ==
    /\ unknown_count = 2
    /\ Len(history) = 1
    /\ history[1].count = 2
    /\ record_written = "written"
    /\ answer.code = None

(***************************************************************************)
(* The Catalog after construction                                          *)
(***************************************************************************)
\* C14: a missing or malformed CodeBlocks.json is fatal: with such a file
\* no bot is constructed, so no candidate is ever handed to a resolver.
C14_CatalogLoadFailureIsFatal ==
    code_file.status # "ok" => ~Named

UpperCase == {"A", "B", "D", "E", "F"}
IsLowerCase(str) == \A i \in 1..Len(str) : str[i] \notin UpperCase

\* the titles of CodeBlocks.json
Titles == {code_file.content[i].title : i \in 1..Len(code_file.content)}
\* two titles that differ at most in case
SameTitle(t, u) ==
    /\ Len(t) = Len(u)
    /\ \A i \in 1..Len(t) :
          \/ t[i] = u[i]
          \/ <<t[i], u[i]>> \in {<<"A", "a">>, <<"a", "A">>, <<"B", "b">>,
                                 <<"b", "B">>, <<"D", "d">>, <<"d", "D">>,
                                 <<"E", "e">>, <<"e", "E">>, <<"F", "f">>,
                                 <<"f", "F">>}

\* C16: after construction every Catalog key is lowercase, no key occurs
\* twice, titles that differ only in case share one key, every title of a
\* loaded snapshot has its key, and every key holds at least one body.
C16_CatalogInvariant ==
    /\ \A i \in 1..Len(code_blocks) :
          /\ IsLowerCase(code_blocks[i].key)
          /\ Len(code_blocks[i].value) >= 1
          /\ \A j \in 1..Len(code_blocks) :
                code_blocks[i].key = code_blocks[j].key => i = j
    /\ code_blocks # <<>> =>
          /\ \A t \in Titles : \E k \in Identifiers : SameTitle(t, k)
          /\ \A k \in Identifiers : \E t \in Titles : SameTitle(t, k)

\* two records whose titles differ only in case were merged under one key
C16_Witness ==
    /\ Cardinality(Titles) = 2
    /\ Len(code_blocks) = 1
    /\ Len(code_blocks[1].value) = 2
    /\ \E t \in Titles : ~IsLowerCase(t)

(***************************************************************************)
(* The Correction Table file                                               *)
(***************************************************************************)
\* every block of CodeBlocks.json is stored under its lowercased title
FullyLoaded ==
    \A i \in 1..Len(code_file.content) :
        LET block == code_file.content[i]
        IN \E k \in Identifiers :
              /\ SameTitle(block.title, k) /\ IsLowerCase(k)
              /\ \E b \in StoredBlocks(k) : join(b.blocks) \in BodiesOf(k)

\* C15: a missing ocr_corrections.json is not an error: the bot holds an
\* empty table and the fully loaded Catalog, a request is resolved by the
\* exact, fuzzy and substring stages only, and add_correction on the
\* missing file writes a table holding just the new entry.
C15_MissingTableIsEmpty ==
    /\ []((corrections_file.status = "missing" /\ code_file.status = "ok")
            => /\ ocr_corrections = Corrections(TRUE, <<>>)
               /\ code_blocks # <<>>
               /\ FullyLoaded
               /\ Named => /\ answer.via \in {"exact", "corrected",
                                               "substring", "unknown"}
                           /\ answer.via = "corrected"
                                => Gt(Score(answer.key), <<3, 5>>)
                           /\ answer.via = "exact"
                                => answer.key = Candidate)
    /\ [][\A x \in {<<"z", "z">>, <<"B", "b">>} :
             (corrections_file.status = "missing"
                /\ add_correction(x, <<"E", "f", "a">>, FALSE))
                 => corrections_file' =
                      File(<<Entry(lower(x), <<"e", "f", "a">>)>>)]_vars

\* the bot started without the file resolved a request by fuzzy scoring,
\* and add_correction has since created the file with one entry
C15_Witness ==
    /\ session = 1
    /\ ocr_corrections = Corrections(TRUE, <<>>)
    /\ answer.via = "corrected"
    /\ corrections_file = File(<<Entry(<<"b", "b">>, <<"e", "f", "a">>)>>)

\* the table of a file
TableOf(file) == IF file.status = "ok" THEN file.content ELSE <<>>
KeysOf(table) == {table[i].key : i \in 1..Len(table)}
ValueOf(table, k) ==
    (CHOOSE e \in {table[i] : i \in 1..Len(table)} : e.key = k).value
UniqueKeys(table) ==
    \A i, j \in 1..Len(table) : table[i].key = table[j].key => i = j

\* C17: add_correction is an idempotent last-write-wins upsert: when a call
\* returns, the table holds one entry for the lowercased ocr_text, whose
\* value is the lowercased name of that call, every other entry is as
\* before, no key occurs twice, and the same call again leaves the table
\* as it is.
C17_LastWriteWinsUpsert ==
    [][\A x \in OcrErrors, y \in CorrectNames :
         (corrections_file.status # "malformed" /\ add_correction(x, y, FALSE))
            => LET old == TableOf(corrections_file)
                   new == TableOf(corrections_file')
               IN /\ corrections_file'.status = "ok"
                  /\ UniqueKeys(old) => UniqueKeys(new)
                  /\ KeysOf(new) = KeysOf(old) \cup {lower(x)}
                  /\ ValueOf(new, lower(x)) = lower(y)
                  /\ \A k \in KeysOf(old) \ {lower(x)} :
                        ValueOf(new, k) = ValueOf(old, k)
                  /\ upsert(new, x, y) = new]_vars

\* a table of two entries, one of which was written a second time with
\* another name
C17_Witness ==
    /\ corrections_file.status = "ok"
    /\ Len(corrections_file.content) = 2
    /\ corrections_file.content[1] = Entry(<<"z", "z">>, <<"e", "f", "a">>)
    /\ added = Added(<<"Z", "z">>, <<"E", "f", "a">>, 1)

\* C18: an update of the table is atomic: whatever happens to
\* add_correction while it writes, the file holds a complete table
\* afterwards, never a truncated or partial document.
C18_AtomicUpdate ==
    [][corrections_file.status # "malformed"
          => corrections_file'.status # "malformed"]_vars

\* C19: add_correction rejects an empty ocr_text and an empty name: the
\* call leaves the table as it was.
C19_EmptyArgumentsRejected ==
    [][\A x \in OcrErrors, y \in CorrectNames :
         ((x = <<>> \/ y = <<>>) /\ add_correction(x, y, FALSE))
            => corrections_file' = corrections_file]_vars

\* the Catalog keys of CodeBlocks.json
FileKeys == {lower(t) : t \in Titles}

\* C20: once a candidate x was unresolved and recorded and
\* add_correction(x, k) has returned for a Catalog key k, a session
\* started afterwards resolves x to a body of k by the correction stage
\* and writes no record for it.
C20_FeedbackLoopCloses ==
    (/\ added # NoCorrection
     /\ session > added.session
     /\ Named
     /\ Candidate = lower(added.ocr_error)
     /\ lower(added.correct_name) \in FileKeys
     /\ \E i \in 1..Len(history) :
           /\ lower(history[i].name) = Candidate
           /\ i < Len(history) \/ record_written # "written")
        => /\ answer.via = "corrected"
           /\ answer.key = lower(added.correct_name)
           /\ answer.code \in BodiesOf(answer.key)
           /\ record_written = "none"

(***************************************************************************)
(* The suggestion tool is advisory                                         *)
(***************************************************************************)
\* C21: suggest_corrections only prints: a run of it leaves
\* ocr_corrections.json, the Unknown Records and CodeBlocks.json as they
\* were.
C21_SuggestionsAreAdvisory ==
    [][(reviewed = <<>> /\ reviewed' # <<>>)
          => /\ corrections_file' = corrections_file
             /\ history' = history
             /\ code_file' = code_file]_vars

\* the tool has printed a suggestion for a record that has no correction,
\* with a table on disk it could have written to
C21_Witness ==
    /\ corrections_file.status = "ok"
    /\ \E i \in 1..Len(reviewed) :
          ~reviewed[i].known /\ reviewed[i].top # <<>>
    /\ \E i \in 1..Len(reviewed) : reviewed[i].known

(***************************************************************************)
(* The Similarity Scorer                                                   *)
(***************************************************************************)
\* the strings one insertion, deletion or substitution away from x
OneEdit(x) ==
    {SubSeq(x, 1, i - 1) \o SubSeq(x, i + 1, Len(x)) : i \in 1..Len(x)}
    \cup {[x EXCEPT ![i] = c] : i \in 1..Len(x), c \in Alphabet}
    \cup {SubSeq(x, 1, i) \o <<c>> \o SubSeq(x, i + 1, Len(x)) :
             i \in 0..Len(x), c \in Alphabet}

\* the strings at most n edits away from x
RECURSIVE WithinEdits(_, _)
WithinEdits(x, n) ==
    IF n = 0 THEN {x}
    ELSE LET near == WithinEdits(x, n - 1)
         IN near \cup UNION {OneEdit(y) : y \in near}

\* the minimum number of edits that turn a into b
MinEdits(a, b) ==
    CHOOSE n \in 0..(Len(a) + Len(b)) :
        /\ b \in WithinEdits(a, n)
        /\ n > 0 => b \notin WithinEdits(a, n - 1)

Longer(a, b) == IF Len(a) >= Len(b) THEN Len(a) ELSE Len(b)

\* C22: the similarity is 0.0 when either string is empty, otherwise
\* 1 - distance/max(len); it lies in [0, 1]; a non-empty string has
\* similarity 1.0 to itself and every string has similarity 0.0 to "".
C22_SimilarityContract ==
    scored # NoScore
        => /\ (s1 = <<>> \/ s2 = <<>>) => scored.similarity = <<0, 1>>
           /\ (s1 # <<>> /\ s2 # <<>>)
                => scored.similarity =
                     <<Longer(s1, s2) - MinEdits(s1, s2), Longer(s1, s2)>>
           /\ scored.similarity[2] > 0
           /\ Ge(scored.similarity, Zero) /\ Ge(One, scored.similarity)
           /\ (s1 = s2 /\ s1 # <<>>) => Eq(scored.similarity, One)

\* two different strings of different lengths that have something in common
C22_Witness ==
    /\ scored # NoScore
    /\ Len(s1) < Len(s2)
    /\ s1 # <<>>
    /\ Gt(scored.similarity, Zero)
    /\ Gt(One, scored.similarity)
    /\ scored.distance > Len(s2) - Len(s1)

\* C23: levenshtein_distance is the minimum number of single-character
\* insertions, deletions and substitutions that turn the first string into
\* the second, and it is the same in either argument order.
C23_MinimumEditDistance ==
    scored # NoScore
        => /\ scored.distance = MinEdits(s1, s2)
           /\ scored.distance = levenshtein_distance(s2, s1)
           /\ scored.distance = MinEdits(s2, s1)

\* the shorter string was passed first, and the cheapest way from it to the
\* longer one takes a substitution besides the insertions
C23_Witness ==
    /\ scored # NoScore
    /\ Len(s1) < Len(s2)
    /\ s1 # <<>>
    /\ scored.distance > Len(s2) - Len(s1)
    /\ scored.distance < Len(s2)

(***************************************************************************)
(* Keystroke replay                                                        *)
(***************************************************************************)
\* the text without its indentation: the whitespace between the start of a
\* line and its first other character is left out
RECURSIVE Unindented(_, _)
Unindented(text, at_start) ==
    IF text = <<>> THEN <<>>
    ELSE IF Head(text) = "\n" THEN <<"\n">> \o Unindented(Tail(text), TRUE)
    ELSE IF at_start /\ Head(text) \in Whitespace
    THEN Unindented(Tail(text), TRUE)
    ELSE <<Head(text)>> \o Unindented(Tail(text), FALSE)

\* what the game receives: a letter between SHIFT down and SHIFT up is its
\* upper-case letter, SPACE a blank, ENTER a newline; "?" marks a SHIFT
\* that is not used that way
RECURSIVE Received(_)
Received(ks) ==
    IF ks = <<>> THEN <<>>
    ELSE IF Head(ks) = SHIFT_DOWN
    THEN IF Len(ks) >= 3 /\ ks[3] = SHIFT_UP /\ \E c \in TypeAlphabet :
                                                   isupper(c) /\ LowerChar(c) = ks[2]
         THEN <<CHOOSE c \in TypeAlphabet : isupper(c) /\ LowerChar(c) = ks[2]>>
              \o Received(SubSeq(ks, 4, Len(ks)))
         ELSE <<"?">>
    ELSE IF Head(ks) = SHIFT_UP THEN <<"?">>
    ELSE IF Head(ks) = SPACE THEN <<" ">> \o Received(Tail(ks))
    ELSE IF Head(ks) = ENTER THEN <<"\n">> \o Received(Tail(ks))
    ELSE <<Head(ks)>> \o Received(Tail(ks))

Count(ks, k) == Cardinality({i \in 1..Len(ks) : ks[i] = k})

\* C27: type_text sends the lines in order, each without its leading
\* whitespace and otherwise character by character (a blank as SPACE, an
\* upper-case letter as SHIFT with its lower-case letter), and ENTER behind
\* every line but the last; no blank, upper-case letter or newline is sent
\* as a plain character.
C27_TypedWithoutIndentation ==
    pc = "typed"
        => /\ Received(keys) = Unindented(code_text, TRUE)
           /\ Count(keys, ENTER) = Count(code_text, "\n")
           /\ \A i \in 1..Len(keys) :
                 keys[i] \notin {" ", "\n"} /\ ~isupper(keys[i])

\* an indented line with an upper-case letter and a blank behind it, then
\* a last line
C27_Witness ==
    /\ pc = "typed"
    /\ code_text = <<" ", "A", " ", "\n", "b">>
    /\ keys = <<SHIFT_DOWN, "a", SHIFT_UP, SPACE, ENTER, "b">>

(***************************************************************************)
(* The game-play loop                                                      *)
(***************************************************************************)
\* the pass that has just been made called get_code_from_database
Looked(current, previous) == Truthy(current) /\ current # previous

\* C24: an unresolved candidate does not end the loop: a pass in which
\* get_code_from_database returns None and the screen shows no results
\* sends ESC, types nothing, and leaves the loop at its next challenge; the
\* loop ends only at the limit of 10 challenges, on a results screen, or
\* when the same function is read again after the longer wait.
C24_UnresolvedSkipsOneChallenge ==
    /\ [][(/\ challenge_count' = challenge_count + 1
           /\ Looked(current_function', prev_function_name)
           /\ answer'.code = None
           /\ ~results_detected')
              => /\ pc' = "loop"
                 /\ keys' = <<ESCAPE>>
                 /\ code_text' = None
                 /\ prev_function_name' = prev_function_name
                 /\ challenge_count' <= max_challenges]_vars
    /\ [](pc = "finished"
            => \/ challenge_count = max_challenges
               \/ results_detected
               \/ /\ Truthy(current_function)
                  /\ current_function = prev_function_name)

\* the tenth challenge of a game was an unresolved candidate: it was
\* skipped, and the loop ended at its limit
C24_Witness ==
    /\ pc = "finished"
    /\ challenge_count = max_challenges
    /\ current_function = <<"z", "z">>
    /\ function_name = <<"z", "z">>
    /\ answer.via = "unknown"
    /\ unknown_count = MaxUnknown
    /\ ~results_detected
    /\ keys = <<ESCAPE>>
    /\ prev_function_name = <<"a", "b">>

(***************************************************************************)
(* Order of the Catalog in stage 4 and in the substring fallback           *)
(***************************************************************************)
\* the place of an identifier in the iteration order of the Catalog
Place(id) == IndexOf(code_blocks, id)

\* the identifiers with the highest stage-4 score
Best == {id \in Identifiers : \A other \in Identifiers : Ge(Score(id), Score(other))}

\* C25: when stage 4 accepts and several identifiers share the highest
\* score, the one that comes first in the Catalog is resolved.
C25_TiesGoToTheFirst ==
    (Stage4Decides /\ \E id \in Identifiers : Gt(Score(id), THRESHOLD))
        => /\ answer.via = "corrected"
           /\ answer.key \in Best
           /\ \A id \in Best : Place(answer.key) <= Place(id)

\* two identifiers share the highest score and the request gets the first
C25_Witness ==
    /\ Stage4Decides
    /\ Cardinality(Best) = 2
    /\ \E id \in Best : Gt(Score(id), THRESHOLD) /\ id # answer.key
    /\ answer.via = "corrected"
    /\ answer.key = code_blocks[1].key

\* the identifiers in a substring relation with the uncleaned candidate
Related == {id \in Identifiers : contains(Candidate, id) \/ contains(id, Candidate)}

\* the exact match, the Correction Table and stage 4 chose no identifier
NoIdentifierChosen ==
    /\ Named
    /\ Candidate \notin Identifiers
    /\ IF InTable(Candidate) THEN StaleCorrection
       ELSE \A id \in Identifiers : ~Gt(Score(id), THRESHOLD)

\* C26: the substring fallback decides only when the earlier stages chose
\* no identifier; it then takes the first identifier, in Catalog order,
\* that contains the uncleaned lowercased candidate or is contained in it.
C26_SubstringFallback ==
    /\ answer.via = "substring"
          => /\ NoIdentifierChosen
             /\ answer.key \in Related
             /\ \A id \in Related : Place(answer.key) <= Place(id)
    /\ (NoIdentifierChosen /\ Related # {}) => answer.via = "substring"
    /\ (NoIdentifierChosen /\ Related = {}) => answer.via = "unknown"

\* two identifiers contain the candidate and the fallback takes the first
C26_Witness ==
    /\ answer.via = "substring"
    /\ Cardinality(Related) = 2
    /\ answer.key = code_blocks[1].key

\* the candidate starts with none of the prefix tokens
NoPrefix == \A i \in 1..Len(PREFIXES) : ~startswith(Candidate, PREFIXES[i])

\* C28: for a non-empty candidate without a table entry and without a
\* prefix token, every identifier in a substring relation with it scores
\* at least 0.85 in stage 4, which decides, and the fallback selects
\* nothing; the fallback selects an identifier only for a candidate that
\* starts with a prefix token (the identifier is contained in the candidate
\* and not in the cleaned candidate) or that has a correction to a name
\* that is no Catalog key.
C28_FallbackNeedsPrefixOrStaleCorrection ==
    /\ (Named /\ ~InTable(Candidate) /\ NoPrefix)
          => /\ answer.via # "substring"
             /\ \A id \in Related : Ge(Score(id), BOOST)
             /\ (Related # {} /\ Candidate \notin Identifiers)
                  => answer.via = "corrected"
    /\ answer.via = "substring"
          => \/ StaleCorrection
             \/ /\ ~NoPrefix
                /\ contains(answer.key, Candidate)
                /\ ~contains(answer.key, Clean)

\* a candidate without a prefix is contained in an identifier it is not
\* similar to, and stage 4 resolves it
C28_Witness ==
    /\ Stage4Decides
    /\ NoPrefix
    /\ answer.via = "corrected"
    /\ answer.key \in Related
    /\ ~Gt(calculate_similarity(Candidate, answer.key), THRESHOLD)

\* C30: an ocr_corrections.json that cannot be parsed leaves the bot with
\* an empty Catalog and without a correction table, although
\* CodeBlocks.json was read; the bot goes on, and every request of the
\* session is unresolved.
C30_MalformedTableEmptiesCatalog ==
    corrections_file.status = "malformed"
        => /\ code_blocks = <<>>
           /\ ~ocr_corrections.set
           /\ Called => answer.code = None
           /\ Named => answer.via = "unknown" /\ unknown_count = 1

\* the candidate is a title of the well-formed CodeBlocks.json
C30_Witness ==
    /\ corrections_file.status = "malformed"
    /\ code_file.status = "ok"
    /\ Named
    /\ Candidate \in FileKeys
    /\ answer.via = "unknown"
    /\ unknown_count = 1

(***************************************************************************)
(* A candidate that is a prefix token and nothing else                     *)
(***************************************************************************)
IsPrefixToken == \E i \in 1..Len(PREFIXES) : Candidate = PREFIXES[i]

\* the identifiers whose plain similarity to the candidate exceeds 0.85
VerySimilar ==
    {id \in Identifiers : Gt(calculate_similarity(Candidate, id), BOOST)}

\* C29: a candidate that is exactly a prefix token, is no Catalog key and
\* has no correction is cleaned to the empty string, which every
\* identifier contains, so every identifier scores at least 0.85; with a
\* non-empty Catalog the request is resolved by stage 4, to the first
\* identifier of the Catalog unless an identifier's plain similarity to the
\* candidate exceeds 0.85 (then to the most similar one).
C29_BarePrefixTakesFirstIdentifier ==
    (Stage4Decides /\ IsPrefixToken /\ code_blocks # <<>>)
        => /\ Clean = <<>>
           /\ \A id \in Identifiers : Ge(Score(id), BOOST)
           /\ answer.via = "corrected"
           /\ answer.code \in BodiesOf(answer.key)
           /\ unknown_count = 0
           /\ VerySimilar = {} => answer.key = code_blocks[1].key
           /\ VerySimilar # {} => answer.key \in VerySimilar /\ answer.key \in Best

\* the candidate function has nothing in common with the first identifier
\* of a Catalog of two and is resolved to it
C29_Witness ==
    /\ Stage4Decides
    /\ Candidate = <<"l", "e", "t">>
    /\ Len(code_blocks) = 2
    /\ VerySimilar = {}
    /\ answer.via = "corrected"
    /\ answer.key = code_blocks[1].key
    /\ Eq(calculate_similarity(Candidate, answer.key), Zero)
    /\ \E id \in Identifiers :
          Gt(calculate_similarity(Candidate, id), calculate_similarity(Candidate, answer.key))

====
